---- MODULE Spec2Model ----
(* Model of ntex/src/web/handler.rs: the typed handler adapter               *)
(* (HandlerWrapper) and its in-place three-phase dispatch future             *)
(* (HandlerWrapperResponse).                                                 *)
EXTENDS Integers, Sequences, FiniteSets, TLC

\* ------------------------------------------------------------------ bounds
MaxFut == 2          \* dispatch futures alive in one run
MaxAdapters == 2     \* adapters alive in one run (the original and clones)

\* ---------------------------------------------------------------- domains
FutIds == 1..MaxFut
AdapterIds == 1..MaxAdapters
Handlers == {"f", "g"}                \* user callables a wrapper can hold
Heads == {"reqA", "reqB"}             \* identities of request heads
Payloads == {"body"}                  \* payload stream of a request

None == <<>>
Some(x) == <<x>>
IsSome(o) == o # <<>>
Unwrap(o) == o[1]

\* ------------------------------------------------- Handler trait (arity)
\* The index lists of the ten factory_tuple! invocations.
FactoryTuple ==
  << <<0>>,
     <<0, 1>>,
     <<0, 1, 2>>,
     <<0, 1, 2, 3>>,
     <<0, 1, 2, 3, 4>>,
     <<0, 1, 2, 3, 4, 5>>,
     <<0, 1, 2, 3, 4, 5, 6>>,
     <<0, 1, 2, 3, 4, 5, 6, 7>>,
     <<0, 1, 2, 3, 4, 5, 6, 7, 8>>,
     <<0, 1, 2, 3, 4, 5, 6, 7, 8, 9>> >>

MaxArity == Len(FactoryTuple)
Arities == 0..MaxArity

\* The callable itself: the future it returns remembers who was called with
\* which positional arguments; its output is built from exactly that.
Callable(hnd, args) == [hnd |-> hnd, args |-> args]

\* impl Handler<(), Err> for F: (self)()
Handler_call_unit(hnd, param) == Callable(hnd, <<>>)

\* Variant: the tuple is unpacked from its last element to its first.
Handler_call_tuple_rev(hnd, param) ==
  LET ns == FactoryTuple[Len(param)]
  IN  Callable(hnd, [j \in 1..Len(ns) |-> param[ns[Len(ns) + 1 - j] + 1]])

\* impl Handler<($($T,)+), Err> for Func: (self)($(param.$n,)+)
Handler_call_tuple(hnd, param) ==
  LET ns == FactoryTuple[Len(param)]
  IN  Callable(hnd, [j \in 1..Len(ns) |-> param[ns[j] + 1]])

Handler_call(hnd, param) ==
  IF Len(param) = 0 THEN Handler_call_unit(hnd, param)
                    ELSE Handler_call_tuple(hnd, param)

\* Output of the handler future once it is Ready.
HandlerOutput(fut) == [by |-> fut.hnd, args |-> fut.args]

\* ------------------------------------------------ external capabilities
\* The value an extractor for a k-tuple yields when it succeeds: position i
\* holds i, so that every position is told from every other.
ParamTuples(k) == { [i \in 1..k |-> i] }

ExtractError == [src |-> "extract", of |-> None]
RespondError(out) == [src |-> "respond", of |-> Some(out)]
Body(out) == [rendered |-> out]

\* T::from_request(&req, &mut payload)
from_request(T, head, payload) == [T |-> T, head |-> head, payload |-> payload]

\* res.respond_to(&req)
respond_to(res, head) == [res |-> res, head |-> head]

\* WebResponse::new(req, res)
WebResponse_new(req, res) == [head |-> req, body |-> Some(res), err |-> None]

\* WebResponse::from_err::<Err, _>(e, req)
WebResponse_from_err(e, req) == [head |-> req, body |-> None, err |-> Some(e)]

\* --------------------------------------------------------- poll results
Pending == [tag |-> "Pending", ok |-> None, err |-> None]
ReadyOk(v) == [tag |-> "Ready", ok |-> Some(v), err |-> None]
ReadyErr(e) == [tag |-> "Ready", ok |-> None, err |-> Some(e)]
PanicUnwrap == [tag |-> "PanicUnwrap", ok |-> None, err |-> None]
PanicUnreachable == [tag |-> "PanicUnreachable", ok |-> None, err |-> None]
PanicSub == [tag |-> "PanicSub", ok |-> None, err |-> None]
NotPolled == [tag |-> "NotPolled", ok |-> None, err |-> None]

IsPanic(r) == r.tag \in {"PanicUnwrap", "PanicUnreachable", "PanicSub"}

\* ------------------------------------------------------- sub-future polls
\* What one poll of a sub-future can return.  A sub-future that is polled
\* again after it returned Ready may do anything, including panic.
Modes1(T, completed) ==
  {[tag |-> "Pending", p |-> None], [tag |-> "Err", p |-> None]}
    \cup {[tag |-> "Ok", p |-> Some(p)] : p \in ParamTuples(T)}
    \cup (IF completed THEN {[tag |-> "Panic", p |-> None]} ELSE {})
Modes2 == {"Pending", "Ready"}
Modes3(completed) ==
  {"Pending", "Ok", "Err"} \cup (IF completed THEN {"Panic"} ELSE {})

\* <T::Future as Future>::poll
PollFut1(fut, m) ==
  CASE m.tag = "Pending" -> Pending
    [] m.tag = "Ok" -> ReadyOk(Unwrap(m.p))
    [] m.tag = "Err" -> ReadyErr(ExtractError)
    [] OTHER -> PanicSub

\* <F::Future as Future>::poll
PollFut2(fut, m) ==
  IF m = "Pending" THEN Pending ELSE ReadyOk(HandlerOutput(fut))

\* <<F::Output as Responder<Err>>::Future as Future>::poll
PollFut3(fut, m) ==
  CASE m = "Pending" -> Pending
    [] m = "Ok" -> ReadyOk(Body(fut.res))
    [] m = "Err" -> ReadyErr(RespondError(fut.res))
    [] OTHER -> PanicSub

\* ------------------------------------------------- HandlerWrapperResponse
\* Fields hnd, fut1, fut2, fut3, req are the struct's; the others are
\* history: adapter and head0 (who created it, for which head), param (what
\* the extractor yielded), calls (argument lists the callable observed),
\* log (order of the steps taken), takes (head taken out of req), ret
\* (value of the last poll), result (first Ready value), nready (Ready
\* values returned), misuse (polled after Ready), status.
HandlerWrapperResponse(a, hnd, fut1, head) ==
  [ hnd |-> hnd, fut1 |-> Some(fut1), fut2 |-> None, fut3 |-> None,
    req |-> Some(head),
    adapter |-> a, head0 |-> head, param |-> None, calls |-> <<>>,
    log |-> <<"from_request">>, takes |-> 0, ret |-> NotPolled,
    result |-> None, nready |-> 0, misuse |-> FALSE, status |-> "live" ]

Out(s, ret, d) == [s |-> s, ret |-> ret, depth |-> d]

\* this.req.take() on a head that is there; ret is what poll returns
Taken(s, ev, ret, d) ==
  Out([s EXCEPT !.req = None, !.takes = @ + 1,
                !.log = @ \o <<ev, "take_head">>], ret, d)

\* .unwrap() on a head that is gone
UnwrapNone(s, ev, d) == Out([s EXCEPT !.log = @ \o <<ev>>], PanicUnwrap, d)

\* Variant: the handler future is never stored in fut2.
on_fut1_ok_noset(s, param) ==
  LET fut == Handler_call(s.hnd, param)
  IN  [s EXCEPT !.fut1 = None,
                !.param = Some(param),
                !.calls = Append(@, fut.args),
                !.log = @ \o <<"fut1_ok", "hnd_call">>]

\* fut1 arm Poll::Ready(Ok(param)), up to the re-entrant call
on_fut1_ok(s, param) ==
  LET fut == Handler_call(s.hnd, param)
  IN  [s EXCEPT !.fut1 = None, !.fut2 = Some(fut),
                !.param = Some(param),
                !.calls = Append(@, fut.args),
                !.log = @ \o <<"fut1_ok", "hnd_call">>]

\* Variant: the handler is started while the extractor is still pending.
on_fut1_pending_eager(s, d) ==
  IF s.calls = <<>>
  THEN Out([s EXCEPT !.calls = Append(@, <<>>), !.log = @ \o <<"hnd_call">>],
           Pending, d)
  ELSE Out(s, Pending, d)

\* fut1 arm Poll::Pending
on_fut1_pending(s, d) == Out(s, Pending, d)

\* Variant: the handler is called although extraction failed.
on_fut1_err_calls(s, e, d) ==
  IF IsSome(s.req)
  THEN Taken([s EXCEPT !.calls = Append(@, <<>>)], "fut1_err",
             ReadyOk(WebResponse_from_err(e, Unwrap(s.req))), d)
  ELSE UnwrapNone(s, "fut1_err", d)

\* Variant: a first extraction failure creates the extractor anew.
on_fut1_err_retry(s, e, d) ==
  IF Len(s.log) = 1
  THEN Out([s EXCEPT !.log = @ \o <<"fut1_err", "from_request">>], Pending, d)
  ELSE IF IsSome(s.req)
  THEN Taken(s, "fut1_err", ReadyOk(WebResponse_from_err(e, Unwrap(s.req))), d)
  ELSE UnwrapNone(s, "fut1_err", d)

\* Variant: the slot of the failed extractor is cleared on completion.
on_fut1_err_clear(s, e, d) ==
  IF IsSome(s.req)
  THEN Taken([s EXCEPT !.fut1 = None], "fut1_err",
             ReadyOk(WebResponse_from_err(e, Unwrap(s.req))), d)
  ELSE UnwrapNone(s, "fut1_err", d)

\* fut1 arm Poll::Ready(Err(e))
on_fut1_err(s, e, d) ==
  IF IsSome(s.req)
  THEN Taken(s, "fut1_err", ReadyOk(WebResponse_from_err(e, Unwrap(s.req))), d)
  ELSE UnwrapNone(s, "fut1_err", d)

\* Variant: the head is taken out of req instead of borrowed.
on_fut2_ready_take(s, res) ==
  LET fut == respond_to(res, Unwrap(s.req))
  IN  [s EXCEPT !.fut2 = None, !.fut3 = Some(fut), !.req = None,
                !.takes = @ + 1,
                !.log = @ \o <<"fut2_ready", "take_head", "respond_to">>]

\* Variant: the responder future is never stored in fut3.
on_fut2_ready_noset(s, res) ==
  [s EXCEPT !.fut2 = None, !.log = @ \o <<"fut2_ready", "respond_to">>]

\* fut2 arm Poll::Ready(res), up to the re-entrant call; the head is only
\* borrowed: this.req.as_ref().unwrap()
on_fut2_ready(s, res) ==
  LET fut == respond_to(res, Unwrap(s.req))
  IN  [s EXCEPT !.fut2 = None, !.fut3 = Some(fut),
                !.log = @ \o <<"fut2_ready", "respond_to">>]

\* Variant: a pending handler future is taken out of its slot.
on_fut2_pending_clear(s, d) == Out([s EXCEPT !.fut2 = None], Pending, d)

\* fut2 arm Poll::Pending
on_fut2_pending(s, d) == Out(s, Pending, d)

\* Variant: the Ok arm renders an error response, as the Err arm does.
on_fut3_ok_as_err(s, res, d) ==
  IF IsSome(s.req)
  THEN Taken(s, "fut3_ok",
             ReadyOk(WebResponse_from_err(RespondError(Unwrap(s.fut3).res),
                                          Unwrap(s.req))), d)
  ELSE UnwrapNone(s, "fut3_ok", d)

\* Variant: the response is built from a copy of the head, which stays in
\* req, for the first two Ready values.
on_fut3_ok_keep_head(s, res, d) ==
  IF IsSome(s.req) /\ s.nready < 2
  THEN Out([s EXCEPT !.log = @ \o <<"fut3_ok">>],
           ReadyOk(WebResponse_new(Unwrap(s.req), res)), d)
  ELSE IF IsSome(s.req)
  THEN Taken(s, "fut3_ok", ReadyOk(WebResponse_new(Unwrap(s.req), res)), d)
  ELSE UnwrapNone(s, "fut3_ok", d)

\* fut3 arm Poll::Ready(Ok(res))
on_fut3_ok(s, res, d) ==
  IF IsSome(s.req)
  THEN Taken(s, "fut3_ok", ReadyOk(WebResponse_new(Unwrap(s.req), res)), d)
  ELSE UnwrapNone(s, "fut3_ok", d)

\* Variant: on a pending responder poll is entered once more before it
\* returns.
on_fut3_pending_reenter(s, d) == Out(s, Pending, d + 1)

\* fut3 arm Poll::Pending
on_fut3_pending(s, d) == Out(s, Pending, d)

\* Variant: the handler is called again after a failed conversion.
on_fut3_err_reinvoke(s, e, d) ==
  IF IsSome(s.req)
  THEN Taken([s EXCEPT !.calls = Append(@, Unwrap(s.fut3).res.args)],
             "fut3_err", ReadyOk(WebResponse_from_err(e, Unwrap(s.req))), d)
  ELSE UnwrapNone(s, "fut3_err", d)

\* Variant: the responder's failure is returned as the future's own error.
on_fut3_err_propagate(s, e, d) ==
  IF IsSome(s.req)
  THEN Taken(s, "fut3_err", ReadyErr(e), d)
  ELSE UnwrapNone(s, "fut3_err", d)

\* fut3 arm Poll::Ready(Err(e))
on_fut3_err(s, e, d) ==
  IF IsSome(s.req)
  THEN Taken(s, "fut3_err", ReadyOk(WebResponse_from_err(e, Unwrap(s.req))), d)
  ELSE UnwrapNone(s, "fut3_err", d)

\* Variant: after a transition poll returns Pending instead of entering
\* itself again.
poll_yield(s, m, d) ==
  IF IsSome(s.fut1) THEN
    LET r == PollFut1(Unwrap(s.fut1), m.m1) IN
    CASE r.tag = "Ready" /\ IsSome(r.ok) ->
           Out(on_fut1_ok(s, Unwrap(r.ok)), Pending, d)
      [] r.tag = "Pending" -> on_fut1_pending(s, d)
      [] r.tag = "Ready" /\ IsSome(r.err) -> on_fut1_err(s, Unwrap(r.err), d)
      [] OTHER -> Out(s, r, d)
  ELSE IF IsSome(s.fut2) THEN
    LET r == PollFut2(Unwrap(s.fut2), m.m2) IN
    CASE r.tag = "Ready" ->
           IF IsSome(s.req)
           THEN Out(on_fut2_ready(s, Unwrap(r.ok)), Pending, d)
           ELSE UnwrapNone(s, "fut2_ready", d)
      [] OTHER -> on_fut2_pending(s, d)
  ELSE IF IsSome(s.fut3) THEN
    LET r == PollFut3(Unwrap(s.fut3), m.m3) IN
    CASE r.tag = "Ready" /\ IsSome(r.ok) -> on_fut3_ok(s, Unwrap(r.ok), d)
      [] r.tag = "Pending" -> on_fut3_pending(s, d)
      [] r.tag = "Ready" /\ IsSome(r.err) -> on_fut3_err(s, Unwrap(r.err), d)
      [] OTHER -> Out(s, r, d)
  ELSE Out(s, PanicUnreachable, d)

\* HandlerWrapperResponse::poll, with its re-entrant calls; d is the nesting
\* depth of this activation, m the results of the sub-future polls it makes.
RECURSIVE poll(_, _, _)
poll(s, m, d) ==
  IF IsSome(s.fut1) THEN
    LET r == PollFut1(Unwrap(s.fut1), m.m1) IN
    CASE r.tag = "Ready" /\ IsSome(r.ok) ->
           LET s1 == on_fut1_ok(s, Unwrap(r.ok)) IN poll(s1, m, d + 1)
      [] r.tag = "Pending" -> on_fut1_pending(s, d)
      [] r.tag = "Ready" /\ IsSome(r.err) -> on_fut1_err(s, Unwrap(r.err), d)
      [] OTHER -> Out(s, r, d)
  ELSE IF IsSome(s.fut2) THEN
    LET r == PollFut2(Unwrap(s.fut2), m.m2) IN
    CASE r.tag = "Ready" ->
           IF IsSome(s.req)
           THEN LET s1 == on_fut2_ready(s, Unwrap(r.ok)) IN poll(s1, m, d + 1)
           ELSE UnwrapNone(s, "fut2_ready", d)
      [] OTHER -> on_fut2_pending(s, d)
  ELSE IF IsSome(s.fut3) THEN
    LET r == PollFut3(Unwrap(s.fut3), m.m3) IN
    CASE r.tag = "Ready" /\ IsSome(r.ok) -> on_fut3_ok(s, Unwrap(r.ok), d)
      [] r.tag = "Pending" -> on_fut3_pending(s, d)
      [] r.tag = "Ready" /\ IsSome(r.err) -> on_fut3_err(s, Unwrap(r.err), d)
      [] OTHER -> Out(s, r, d)
  ELSE Out(s, PanicUnreachable, d)

\* One poll of the boxed future by its owner, and what the owner sees.
Polled(s, m) ==
  LET r == poll(s, m, 1) IN
  [ r.s EXCEPT
      !.ret = r.ret,
      !.misuse = @ \/ IsSome(s.result),
      !.nready = IF r.ret.tag = "Ready" THEN @ + 1 ELSE @,
      !.result = IF r.ret.tag = "Ready" /\ ~IsSome(@) THEN Some(r.ret) ELSE @,
      !.status = IF IsPanic(r.ret) THEN "panicked" ELSE @ ]

\* adapters and futs are the handler adapters and their dispatch futures;
\* trace holds what the last poll of each future did; logger, lresp and
\* access_log belong to the Logger middleware.
VARIABLES adapters, futs, trace, logger, lresp, access_log

vars == <<adapters, futs, trace, logger, lresp, access_log>>
rest == <<trace, logger, lresp, access_log>>

\* No poll is traced and no Logger exists.
HandlerOnly ==
  trace = None /\ logger = None /\ lresp = None /\ access_log = None

\* ---------------------------------------------------------- HandlerWrapper
\* Tuple types the wrappers of a run extract, by arity: () and (A, B).
WrapperArities == {0, 2}

\* HandlerWrapper::new(hnd); T is the tuple type the wrapper extracts.
HandlerWrapper_new(hnd, T) == [hnd |-> hnd, T |-> T]

\* F::clone of the user's callable
hnd_clone(hnd) == hnd

\* Variant: the new adapter gets another callable than the original's.
clone_handler_other(w) ==
  [hnd |-> CHOOSE h \in Handlers : h # w.hnd, T |-> w.T]

\* <HandlerWrapper as HandlerFn>::clone_handler
clone_handler_of(w) == [hnd |-> hnd_clone(w.hnd), T |-> w.T]

\* <HandlerWrapper as Clone>::clone
clone_of(w) == [hnd |-> hnd_clone(w.hnd), T |-> w.T]

\* <HandlerWrapper as HandlerFn>::call
call_of(a, w, wreq) ==
  LET head == wreq.head
      payload == wreq.payload
  IN  HandlerWrapperResponse(a, hnd_clone(w.hnd),
                             from_request(w.T, head, payload), head)

WebRequests == [head : Heads, payload : Payloads]

Init ==
  /\ \E h \in Handlers, T \in WrapperArities :
       adapters = [a \in AdapterIds |->
                     IF a = 1 THEN Some(HandlerWrapper_new(h, T)) ELSE None]
  /\ futs = [f \in FutIds |-> None]
  /\ HandlerOnly

\* Adapters and futures are numbered in the order of their creation.
NextAdapter(b) ==
  ~IsSome(adapters[b]) /\ (IF b = 1 THEN TRUE ELSE IsSome(adapters[b - 1]))
NextFut(f) ==
  ~IsSome(futs[f]) /\ (IF f = 1 THEN TRUE ELSE IsSome(futs[f - 1]))

clone_handler(a, b) ==
  /\ IsSome(adapters[a]) /\ NextAdapter(b)
  /\ adapters' = [adapters EXCEPT ![b] = Some(clone_handler_of(Unwrap(adapters[a])))]
  /\ UNCHANGED futs

clone(a, b) ==
  /\ IsSome(adapters[a]) /\ NextAdapter(b)
  /\ adapters' = [adapters EXCEPT ![b] = Some(clone_of(Unwrap(adapters[a])))]
  /\ UNCHANGED futs

\* Variant: the head is kept in one place for all futures of the adapter, so
\* a new request replaces the head of the requests in flight.
call_shared_head(a, f, wreq) ==
  /\ IsSome(adapters[a]) /\ NextFut(f)
  /\ futs' = [g \in FutIds |->
               IF g = f
               THEN Some(call_of(a, Unwrap(adapters[a]), wreq))
               ELSE IF IsSome(futs[g]) /\ IsSome(Unwrap(futs[g]).req)
               THEN Some([Unwrap(futs[g]) EXCEPT !.req = Some(wreq.head)])
               ELSE futs[g]]
  /\ UNCHANGED adapters

\* <HandlerWrapper as HandlerFn>::call, returning future number f.
call(a, f, wreq) ==
  /\ IsSome(adapters[a]) /\ NextFut(f)
  /\ futs' = [futs EXCEPT ![f] = Some(call_of(a, Unwrap(adapters[a]), wreq))]
  /\ UNCHANGED adapters

\* Variant: a future can still be polled after its owner dropped it.
Live_detached(f) == IsSome(futs[f]) /\ Unwrap(futs[f]).status # "panicked"

\* The future exists and its owner has neither dropped it nor seen it panic.
Live(f) == IsSome(futs[f]) /\ Unwrap(futs[f]).status = "live"
Done(f) == IsSome(futs[f]) /\ IsSome(Unwrap(futs[f]).result)

\* The results of the sub-future polls one poll call can make.  A result for
\* a sub-future the call does not reach is irrelevant and fixed to Pending.
PollInputs(s) ==
  LET completed == IsSome(s.result)
      M1 == IF IsSome(s.fut1) THEN Modes1(Unwrap(s.fut1).T, completed)
                              ELSE {[tag |-> "Pending", p |-> None]}
      M2(m1) == IF IsSome(s.fut2) \/ (IsSome(s.fut1) /\ m1.tag = "Ok")
                THEN Modes2 ELSE {"Pending"}
      M3(m1, m2) == IF IsSome(s.fut3) \/ (M2(m1) = Modes2 /\ m2 = "Ready")
                    THEN Modes3(completed /\ IsSome(s.fut3)) ELSE {"Pending"}
  IN  UNION { UNION { { [m1 |-> m1, m2 |-> m2, m3 |-> m3] : m3 \in M3(m1, m2) }
                      : m2 \in M2(m1) } : m1 \in M1 }

\* The owner polls a future that has not yet returned Ready; m holds the
\* results of the sub-future polls.
PollWith(f, m) ==
  /\ Live(f) /\ ~Done(f)
  /\ futs' = [futs EXCEPT ![f] = Some(Polled(Unwrap(futs[f]), m))]
  /\ UNCHANGED adapters

Poll(f) ==
  /\ IsSome(futs[f])
  /\ \E m \in PollInputs(Unwrap(futs[f])) : PollWith(f, m)

\* The owner drops a future that has not yet returned Ready: its sub-futures
\* and the head go with it.
Drop(f) ==
  /\ Live(f) /\ ~Done(f)
  /\ futs' = [futs EXCEPT ![f] =
                Some([Unwrap(@) EXCEPT !.status = "dropped", !.fut1 = None,
                                       !.fut2 = None, !.fut3 = None,
                                       !.req = None])]
  /\ UNCHANGED adapters

\* Requests dispatched through the adapter built at start; their futures are
\* polled until Ready, or dropped before.
Next ==
  \/ \E f \in FutIds, wreq \in WebRequests :
       call(1, f, wreq) /\ UNCHANGED rest
  \/ \E f \in FutIds : Poll(f) /\ UNCHANGED rest
  \/ \E f \in FutIds : Drop(f) /\ UNCHANGED rest

Spec == Init /\ [][Next]_vars

\* The adapter is cloned, and requests are dispatched through the original
\* and the clones.
CloneNext ==
  \/ \E a, b \in AdapterIds : clone_handler(a, b) /\ UNCHANGED rest
  \/ \E a, b \in AdapterIds : clone(a, b) /\ UNCHANGED rest
  \/ \E a \in AdapterIds, f \in FutIds, wreq \in WebRequests :
       call(a, f, wreq) /\ UNCHANGED rest
  \/ \E f \in FutIds : Poll(f) /\ UNCHANGED rest

CloneSpec == Init /\ [][CloneNext]_vars

\* The sub-future that is polled first by a poll call returns Ready.
ActiveReady(s, m) ==
  IF IsSome(s.fut1) THEN m.m1.tag # "Pending"
  ELSE IF IsSome(s.fut2) THEN m.m2 # "Pending"
  ELSE m.m3 # "Pending"

PollActiveReady(f) ==
  /\ IsSome(futs[f])
  /\ \E m \in PollInputs(Unwrap(futs[f])) :
       ActiveReady(Unwrap(futs[f]), m) /\ PollWith(f, m)

\* No owner drops its future: every future is polled again after a Pending,
\* and its active sub-future eventually returns Ready.
LiveNext ==
  \/ \E f \in FutIds, wreq \in WebRequests :
       call(1, f, wreq) /\ UNCHANGED rest
  \/ \E f \in FutIds : Poll(f) /\ UNCHANGED rest

LiveSpec ==
  /\ Init /\ [][LiveNext]_vars
  /\ \A f \in FutIds : WF_vars(PollActiveReady(f) /\ UNCHANGED rest)

\* One wrapper of any supported arity, and one request dispatched through it.
ArityInit ==
  /\ \E h \in Handlers, T \in Arities :
       adapters = [a \in AdapterIds |->
                     IF a = 1 THEN Some(HandlerWrapper_new(h, T)) ELSE None]
  /\ futs = [f \in FutIds |-> None]
  /\ HandlerOnly

ArityNext ==
  \/ \E wreq \in WebRequests : call(1, 1, wreq) /\ UNCHANGED rest
  \/ Poll(1) /\ UNCHANGED rest

AritySpec == ArityInit /\ [][ArityNext]_vars

\* ------------------------------------------------------------- properties
Created(f) == IsSome(futs[f])
Fut(f) == Unwrap(futs[f])
Dropped(f) == Created(f) /\ Fut(f).status = "dropped"
Has(log, ev) == \E i \in 1..Len(log) : log[i] = ev
IsPrefix(p, q) == Len(p) <= Len(q) /\ SubSeq(q, 1, Len(p)) = p

\* The three complete runs of the pipeline, as sequences of steps.
RunExtractErr == <<"from_request", "fut1_err", "take_head">>
RunOk ==
  <<"from_request", "fut1_ok", "hnd_call", "fut2_ready", "respond_to",
    "fut3_ok", "take_head">>
RunRespondErr ==
  <<"from_request", "fut1_ok", "hnd_call", "fut2_ready", "respond_to",
    "fut3_err", "take_head">>

\* C1: when the extractor, the handler and the responder all succeed, the
\* future resolves to Ok(response) made of the original head and the body
\* the responder produced, and the handler has been invoked exactly once.
C1_SuccessPath ==
  \A f \in FutIds :
    (Created(f) /\ Has(Fut(f).log, "fut3_ok")) =>
      /\ Fut(f).result = Some(Fut(f).ret)
      /\ Fut(f).ret =
           ReadyOk(WebResponse_new(Fut(f).head0, Body(Unwrap(Fut(f).fut3).res)))
      /\ Unwrap(Fut(f).fut3).res =
           [by |-> Fut(f).hnd, args |-> Unwrap(Fut(f).param)]
      /\ Len(Fut(f).calls) = 1

C1_Witness ==
  \E f \in FutIds :
    /\ Created(f) /\ Fut(f).log = RunOk
    /\ Fut(f).ret.tag = "Ready" /\ Len(Fut(f).calls) = 1

\* C2: when the extractor fails, the future resolves to Ok(error response
\* rendered from that failure and the request's own head), the handler is
\* never invoked and the responder conversion is never started.
C2_ExtractFailure ==
  \A f \in FutIds :
    (Created(f) /\ Has(Fut(f).log, "fut1_err")) =>
      /\ Fut(f).result = Some(Fut(f).ret)
      /\ Fut(f).ret = ReadyOk(WebResponse_from_err(ExtractError, Fut(f).head0))
      /\ Len(Fut(f).calls) = 0
      /\ ~Has(Fut(f).log, "hnd_call")
      /\ ~Has(Fut(f).log, "respond_to")
      /\ Fut(f).fut2 = None /\ Fut(f).fut3 = None

C2_Witness ==
  \E f \in FutIds :
    /\ Created(f) /\ Fut(f).log = RunExtractErr
    /\ Fut(f).ret.tag = "Ready" /\ Fut(f).calls = <<>>

\* C3: when extraction succeeds and the responder fails, the handler has
\* been invoked exactly once and the future resolves to Ok(error response
\* rendered from the responder's failure and the request head).
C3_RespondFailure ==
  \A f \in FutIds :
    (Created(f) /\ Has(Fut(f).log, "fut3_err")) =>
      /\ Has(Fut(f).log, "fut1_ok")
      /\ Len(Fut(f).calls) = 1
      /\ Fut(f).result = Some(Fut(f).ret)
      /\ Fut(f).ret =
           ReadyOk(WebResponse_from_err(RespondError(Unwrap(Fut(f).fut3).res),
                                        Fut(f).head0))

C3_Witness ==
  \E f \in FutIds :
    /\ Created(f) /\ Fut(f).log = RunRespondErr
    /\ Fut(f).ret.tag = "Ready" /\ Len(Fut(f).calls) = 1

\* C4: whenever a poll returns Ready, the value is Ok(response): neither
\* failure is ever returned as Err(container).
C4_NeverErr ==
  \A f \in FutIds :
    (Created(f) /\ Fut(f).ret.tag = "Ready") =>
      IsSome(Fut(f).ret.ok) /\ Fut(f).ret.err = None

C4_Witness ==
  /\ \E f \in FutIds : Created(f) /\ Fut(f).log = RunExtractErr
                       /\ IsSome(Fut(f).ret.ok)
  /\ \E f \in FutIds : Created(f) /\ Fut(f).log = RunRespondErr
                       /\ IsSome(Fut(f).ret.ok)

\* C5: the phases run strictly in sequence: the steps taken so far are a
\* prefix of one of the three complete runs (so the handler is called only
\* right after the extractor returned Ready(Ok), respond_to only right after
\* the handler future returned Ready, and no step happens twice), and a
\* later phase's future exists only when the earlier slots are empty.
C5_PhasesInSequence ==
  \A f \in FutIds :
    Created(f) =>
      /\ \/ IsPrefix(Fut(f).log, RunExtractErr)
         \/ IsPrefix(Fut(f).log, RunOk)
         \/ IsPrefix(Fut(f).log, RunRespondErr)
      /\ Len(Fut(f).calls) = (IF Has(Fut(f).log, "hnd_call") THEN 1 ELSE 0)
      /\ IsSome(Fut(f).fut2) => (Fut(f).fut1 = None /\ Has(Fut(f).log, "fut1_ok"))
      /\ IsSome(Fut(f).fut3) =>
           (Fut(f).fut1 = None /\ Fut(f).fut2 = None
            /\ Has(Fut(f).log, "fut2_ready"))

C5_Witness ==
  \E f \in FutIds :
    /\ Created(f) /\ Fut(f).ret.tag = "Pending"
    /\ IsSome(Fut(f).fut3) /\ Len(Fut(f).calls) = 1

\* C6: the head stays in req from creation until the terminal transition,
\* which takes it; it is taken exactly once, and by no earlier step.
C6_HeadTakenOnce ==
  \A f \in FutIds :
    Created(f) =>
      /\ (Fut(f).status = "live" /\ Fut(f).result = None) =>
           (Fut(f).req = Some(Fut(f).head0) /\ Fut(f).takes = 0)
      /\ IsSome(Fut(f).result) =>
           /\ Fut(f).req = None /\ Fut(f).takes = 1
           /\ Fut(f).log[Len(Fut(f).log)] = "take_head"
           /\ \A i \in 1..(Len(Fut(f).log) - 1) : Fut(f).log[i] # "take_head"
      /\ Fut(f).takes = (IF IsSome(Fut(f).result) THEN 1 ELSE 0)

C6_Witness ==
  /\ \E f \in FutIds : Created(f) /\ Fut(f).log = RunOk /\ Fut(f).takes = 1
  /\ \E f \in FutIds : Created(f) /\ IsSome(Fut(f).fut3)
                       /\ Fut(f).req = Some(Fut(f).head0)

\* C7: when the future is not polled again after Ready, no poll panics:
\* neither an unwrap of the head nor unreachable!() is hit.
C7_NoPanic ==
  \A f \in FutIds :
    Created(f) => (~IsPanic(Fut(f).ret) /\ Fut(f).status # "panicked")

C7_Witness ==
  /\ \E f \in FutIds : Created(f) /\ Fut(f).log = RunRespondErr
                       /\ Fut(f).takes = 1 /\ ~Fut(f).misuse
  /\ \E f \in FutIds : Created(f) /\ Fut(f).log = RunOk
                       /\ Fut(f).takes = 1 /\ ~Fut(f).misuse

\* C8: a future that keeps being polled and whose sub-futures eventually
\* return Ready eventually returns Ready(Ok(response)), on every path.
C8_EventuallyResponds ==
  \A f \in FutIds :
    Created(f) ~>
      (Done(f) /\ Fut(f).ret.tag = "Ready" /\ IsSome(Fut(f).ret.ok))

C8_Witness ==
  \E f \in FutIds :
    /\ Done(f) /\ IsSome(Fut(f).ret.ok)
    /\ \E g \in FutIds : Done(g) /\ Fut(g).log = RunExtractErr

\* C9: an adapter and its clone give equal responses and the same number of
\* handler invocations for the same request and the same sub-future
\* outcomes, and no step changes an adapter that exists.
SameOutcomes(s, t) ==
  /\ s.head0 = t.head0
  /\ s.param = t.param
  /\ Has(s.log, "fut1_err") <=> Has(t.log, "fut1_err")
  /\ Has(s.log, "fut3_ok") <=> Has(t.log, "fut3_ok")
  /\ Has(s.log, "fut3_err") <=> Has(t.log, "fut3_err")

CloneAgrees ==
  \A f, g \in FutIds :
    (Done(f) /\ Done(g) /\ Fut(f).adapter # Fut(g).adapter
       /\ SameOutcomes(Fut(f), Fut(g))) =>
      /\ Fut(f).result = Fut(g).result
      /\ Fut(f).calls = Fut(g).calls

AdaptersKept ==
  \A a \in AdapterIds : IsSome(adapters[a]) => adapters'[a] = adapters[a]

C9_CloneEquivalent == []CloneAgrees /\ [][AdaptersKept]_vars

C9_Witness ==
  \E f, g \in FutIds :
    /\ Done(f) /\ Done(g)
    /\ Fut(f).adapter = 1 /\ Fut(g).adapter = 2
    /\ Fut(f).log = RunOk /\ Fut(g).log = RunOk
    /\ Fut(f).head0 = Fut(g).head0
    /\ Fut(f).result = Fut(g).result

\* C10: the callable observes the extracted tuple position by position:
\* argument i is element i of the tuple, for every arity 1..10, and a
\* 0-parameter handler is called with no arguments.
C10_PositionalOrder ==
  \A f \in FutIds :
    Created(f) =>
      \A c \in 1..Len(Fut(f).calls) :
        /\ IsSome(Fut(f).param)
        /\ Len(Fut(f).calls[c]) = Len(Unwrap(Fut(f).param))
        /\ Len(Fut(f).calls[c]) = Unwrap(adapters[Fut(f).adapter]).T
        /\ \A i \in 1..Len(Fut(f).calls[c]) :
             Fut(f).calls[c][i] = Unwrap(Fut(f).param)[i]

C10_Witness ==
  \E f \in FutIds :
    /\ Created(f)
    /\ Unwrap(adapters[Fut(f).adapter]).T = MaxArity
    /\ Fut(f).calls = << <<1, 2, 3, 4, 5, 6, 7, 8, 9, 10>> >>

\* The populated sub-future slots of a dispatch future.
Slots(s) ==
  (IF IsSome(s.fut1) THEN {"fut1"} ELSE {})
    \cup (IF IsSome(s.fut2) THEN {"fut2"} ELSE {})
    \cup (IF IsSome(s.fut3) THEN {"fut3"} ELSE {})

\* C14: between poll calls a dispatch future that exists has exactly one of
\* fut1, fut2 and fut3 populated: a transition clears the slot it leaves in
\* the step that fills the next one, so two phases' futures never coexist
\* and none is ever missing.
C14_OneSlot ==
  \A f \in FutIds :
    (Created(f) /\ ~Dropped(f)) => Cardinality(Slots(Fut(f))) = 1

C14_Witness ==
  \E f, g \in FutIds :
    /\ Live(f) /\ Slots(Fut(f)) = {"fut2"} /\ Has(Fut(f).log, "fut1_ok")
    /\ Live(g) /\ Slots(Fut(g)) = {"fut3"} /\ Has(Fut(g).log, "fut2_ready")
         /\ ~Done(g)

\* How often a step occurs in a log.
Count(log, ev) == Cardinality({ i \in 1..Len(log) : log[i] = ev })

\* C17: in every run, finished or not, a dispatch future's extractor is
\* created once, by call, and its handler is invoked at most once: after a
\* failed extraction the handler has not been invoked and extraction is not
\* started again, and after a failed conversion the handler has been
\* invoked once and not again.
C17_ExtractOnceInvokeOnce ==
  \A f \in FutIds :
    Created(f) =>
      /\ Count(Fut(f).log, "from_request") = 1
      /\ Head(Fut(f).log) = "from_request"
      /\ Len(Fut(f).calls) <= 1
      /\ Count(Fut(f).log, "hnd_call") = Len(Fut(f).calls)
      /\ Has(Fut(f).log, "fut1_err") => Fut(f).calls = <<>>
      /\ Has(Fut(f).log, "fut3_err") => Len(Fut(f).calls) = 1

C17_Witness ==
  \E f, g \in FutIds :
    /\ Dropped(f) /\ Len(Fut(f).calls) = 1 /\ ~Has(Fut(f).log, "fut2_ready")
    /\ Done(g) /\ Fut(g).log = RunRespondErr /\ Len(Fut(g).calls) = 1

\* A dropped future stopped in the phase it was in: no response, the head
\* never taken, the handler not invoked if extraction had not finished, no
\* conversion started if the handler had not finished.
DroppedStopped ==
  \A f \in FutIds :
    Dropped(f) =>
      /\ Fut(f).result = None /\ Fut(f).nready = 0
      /\ Fut(f).takes = 0 /\ ~Has(Fut(f).log, "take_head")
      /\ Slots(Fut(f)) = {}
      /\ ~Has(Fut(f).log, "fut1_ok") =>
           (Fut(f).calls = <<>> /\ ~Has(Fut(f).log, "hnd_call"))
      /\ ~Has(Fut(f).log, "fut2_ready") => ~Has(Fut(f).log, "respond_to")
      /\ IsPrefix(Fut(f).log, RunOk)

\* Nothing happens to a future after it was dropped.
DroppedFrozen ==
  \A f \in FutIds : Dropped(f) => futs'[f] = futs[f]

\* C19: dropping the dispatch future stops the pipeline in the phase it is
\* in: no later phase starts after the drop (none invokes the handler after
\* a drop during extraction, none starts the conversion after a drop during
\* invocation), no terminal transition takes the head and no response is
\* produced.
C19_DropStops == []DroppedStopped /\ [][DroppedFrozen]_vars

C19_Witness ==
  \E f, g \in FutIds :
    /\ Dropped(f) /\ Fut(f).log = <<"from_request">> /\ Fut(f).ret = Pending
    /\ Fut(f).calls = <<>>
    /\ Dropped(g) /\ Has(Fut(g).log, "hnd_call") /\ Fut(g).ret = Pending
    /\ ~Has(Fut(g).log, "respond_to")

\* All a future holds comes from its own request and its adapter's
\* callable: the head in req, in the extractor, in the responder and in the
\* response.
OwnState ==
  \A f \in FutIds :
    (Created(f) /\ ~Dropped(f)) =>
      /\ Fut(f).hnd = Unwrap(adapters[Fut(f).adapter]).hnd
      /\ IsSome(Fut(f).req) => Fut(f).req = Some(Fut(f).head0)
      /\ IsSome(Fut(f).fut1) => Unwrap(Fut(f).fut1).head = Fut(f).head0
      /\ IsSome(Fut(f).fut2) => Unwrap(Fut(f).fut2).hnd = Fut(f).hnd
      /\ IsSome(Fut(f).fut3) => Unwrap(Fut(f).fut3).head = Fut(f).head0
      /\ IsSome(Fut(f).result) =>
           Unwrap(Unwrap(Fut(f).result).ok).head = Fut(f).head0

\* A step that changes one future changes no other future and no adapter.
OthersKept ==
  /\ \A f, g \in FutIds :
       (f # g /\ Created(g) /\ futs'[f] # futs[f]) => futs'[g] = futs[g]
  /\ \A a \in AdapterIds : IsSome(adapters[a]) => adapters'[a] = adapters[a]

\* C20: two dispatch futures made by call on one adapter share no mutable
\* state: however their polls interleave, each one's slots, head and result
\* come from its own request and sub-futures, and a step of one (its
\* creation, a poll, its drop) leaves the other as it was.
C20_NoSharedState == []OwnState /\ [][OthersKept]_vars

C20_Witness ==
  \E f, g \in FutIds :
    /\ Done(f) /\ Fut(f).log = RunOk /\ Live(g)
    /\ Fut(f).adapter = Fut(g).adapter /\ Fut(f).head0 # Fut(g).head0
    /\ Unwrap(Unwrap(Fut(f).result).ok).head = Fut(f).head0
    /\ Slots(Fut(g)) = {"fut2"} /\ Fut(g).ret = Pending
    /\ Fut(g).req = Some(Fut(g).head0)

\* ------------------------------------------------- polls after completion
\* The owner polls a future again although it has returned Ready; its
\* sub-futures, polled after their own completion, may return anything or
\* panic.
PollAgain(f) ==
  /\ Live(f) /\ Done(f)
  /\ \E m \in PollInputs(Unwrap(futs[f])) :
       futs' = [futs EXCEPT ![f] = Some(Polled(Unwrap(futs[f]), m))]
  /\ UNCHANGED adapters

\* Requests dispatched through the adapter built at start; their futures are
\* polled until Ready and also after that.
MisuseNext ==
  \/ \E f \in FutIds, wreq \in WebRequests :
       call(1, f, wreq) /\ UNCHANGED rest
  \/ \E f \in FutIds : Poll(f) /\ UNCHANGED rest
  \/ \E f \in FutIds : PollAgain(f) /\ UNCHANGED rest

MisuseSpec == Init /\ [][MisuseNext]_vars

\* Right after its Ready value a future has given up the head and still
\* holds the sub-future of the phase that ended it; it returns Ready at
\* most once and never finds all three slots empty.
YieldsOnce ==
  \A f \in FutIds :
    Created(f) =>
      /\ Fut(f).nready <= 1
      /\ Fut(f).ret # PanicUnreachable
      /\ (Done(f) /\ ~Fut(f).misuse) =>
           /\ Fut(f).req = None
           /\ Fut(f).ret.tag = "Ready"
           /\ Slots(Fut(f)) =
                (IF Has(Fut(f).log, "fut1_err") THEN {"fut1"} ELSE {"fut3"})
      /\ Fut(f).misuse =>
           /\ Fut(f).ret.tag # "Ready"
           /\ Fut(f).result # Some(Fut(f).ret)
           /\ Cardinality(Slots(Fut(f))) = 1

\* C21 as stated: a dispatch future yields at most one response; after
\* Ready the head is None and the slot of the phase that ended is still
\* populated, and a later poll either returns Pending or hits the unwrap on
\* the empty head, never a second Ready and never unreachable!().
C21_PendingOrUnwrap ==
  /\ YieldsOnce
  /\ \A f \in FutIds :
       (Created(f) /\ Fut(f).misuse) => Fut(f).ret \in {Pending, PanicUnwrap}

\* C21, amended: a dispatch future yields at most one response; after Ready
\* the head is None and the slot of the phase that ended is still populated,
\* and a later poll returns Pending or panics, either in the unwrap on the
\* empty head or inside the sub-future that is polled again after its
\* completion; it never returns a second Ready and never reaches
\* unreachable!().
C21_AtMostOneResponse ==
  /\ YieldsOnce
  /\ \A f \in FutIds :
       (Created(f) /\ Fut(f).misuse) =>
         Fut(f).ret \in {Pending, PanicUnwrap, PanicSub}

C21_Witness ==
  \E f, g \in FutIds :
    /\ Created(f) /\ Fut(f).misuse /\ Fut(f).ret = PanicUnwrap
    /\ Fut(f).nready = 1 /\ Slots(Fut(f)) = {"fut3"}
    /\ Created(g) /\ Fut(g).misuse /\ Fut(g).ret = Pending
    /\ Fut(g).nready = 1 /\ Slots(Fut(g)) = {"fut2"}

\* ------------------------------------------------ one poll call, observed
\* What can be observed of the last poll call of a future: the results m
\* its sub-futures gave, the nesting depth the call reached, the length of
\* log when it began and whether it was the first poll.
Observed(s, m) ==
  [m |-> m, depth |-> poll(s, m, 1).depth, before |-> Len(s.log),
   first |-> s.ret = NotPolled]

PollObserved(f) ==
  /\ IsSome(futs[f])
  /\ \E m \in PollInputs(Unwrap(futs[f])) :
       /\ PollWith(f, m)
       /\ trace' = [trace EXCEPT ![f] = Some(Observed(Unwrap(futs[f]), m))]

TraceInit ==
  /\ \E h \in Handlers, T \in WrapperArities :
       adapters = [a \in AdapterIds |->
                     IF a = 1 THEN Some(HandlerWrapper_new(h, T)) ELSE None]
  /\ futs = [f \in FutIds |-> None]
  /\ trace = [f \in FutIds |-> None]
  /\ logger = None /\ lresp = None /\ access_log = None

\* Requests dispatched through the adapter built at start; every poll of
\* their futures is observed.
TraceNext ==
  \/ \E f \in FutIds, wreq \in WebRequests :
       call(1, f, wreq) /\ UNCHANGED rest
  \/ \E f \in FutIds :
       PollObserved(f) /\ UNCHANGED <<logger, lresp, access_log>>

TraceSpec == TraceInit /\ [][TraceNext]_vars

Traced(f) == Created(f) /\ IsSome(trace[f])
Last(f) == Unwrap(trace[f])

\* The result the sub-future in the populated slot of s gave under m.
ActiveMode(s, m) ==
  IF IsSome(s.fut1) THEN m.m1.tag
  ELSE IF IsSome(s.fut2) THEN m.m2
  ELSE m.m3

AllReady(m) == m.m1.tag = "Ok" /\ m.m2 = "Ready" /\ m.m3 \in {"Ok", "Err"}

\* C15: a poll call returns Pending only if the sub-future of the phase the
\* future is in when the call ends returned Pending; a call whose three
\* sub-futures are all ready on the first poll goes through both transitions
\* and returns Ready.
C15_PendingFromActive ==
  \A f \in FutIds :
    Traced(f) =>
      /\ Fut(f).ret = Pending => ActiveMode(Fut(f), Last(f).m) = "Pending"
      /\ (Last(f).first /\ AllReady(Last(f).m)) =>
           /\ Fut(f).ret.tag = "Ready"
           /\ Fut(f).nready = 1
           /\ Has(Fut(f).log, "fut1_ok") /\ Has(Fut(f).log, "fut2_ready")

C15_Witness ==
  \E f, g \in FutIds :
    /\ Traced(f) /\ Last(f).first /\ AllReady(Last(f).m)
    /\ Fut(f).ret.tag = "Ready" /\ Fut(f).log = RunOk
    /\ Traced(g) /\ Last(g).first /\ Fut(g).ret = Pending
    /\ Slots(Fut(g)) = {"fut3"} /\ Last(g).m.m3 = "Pending"

\* The phase boundaries the last poll call of f went over: the steps of the
\* fut1 Ok arm and of the fut2 Ready arm logged since the call began.
Crossings(f) ==
  Cardinality({ i \in (Last(f).before + 1)..Len(Fut(f).log) :
                  Fut(f).log[i] \in {"fut1_ok", "fut2_ready"} })

\* C16: in one top-level poll call, poll enters itself once for each phase
\* boundary the call goes over and never otherwise, so at most twice: the
\* nesting depth is one more than the boundaries crossed and never above 3,
\* whatever the sub-futures return.
C16_DepthAtMostThree ==
  \A f \in FutIds :
    Traced(f) =>
      /\ Last(f).depth \in 1..3
      /\ Last(f).depth = 1 + Crossings(f)

C16_Witness ==
  \E f, g \in FutIds :
    /\ Traced(f) /\ Last(f).depth = 3 /\ Crossings(f) = 2
    /\ Traced(g) /\ Last(g).depth = 2 /\ Fut(g).ret = Pending

\* A step that polls future f while the sub-future in its populated slot
\* returns Pending leaves the struct's fields and the handler's calls as
\* they were, and the value returned is Pending.
PendingFrame ==
  \A f \in FutIds :
    (/\ Created(f) /\ IsSome(trace'[f])
     /\ (futs'[f] # futs[f] \/ trace'[f] # trace[f])
     /\ ActiveMode(Fut(f), Unwrap(trace'[f]).m) = "Pending") =>
      LET s == Fut(f)
          t == Unwrap(futs'[f])
      IN  /\ t.ret = Pending
          /\ t.fut1 = s.fut1 /\ t.fut2 = s.fut2 /\ t.fut3 = s.fut3
          /\ t.req = s.req /\ IsSome(t.req)
          /\ t.hnd = s.hnd
          /\ t.calls = s.calls /\ t.takes = s.takes /\ t.log = s.log

\* C18: when the sub-future of the active phase returns Pending, poll
\* returns Pending and the dispatch state stays as it was: the same slot is
\* populated, the head is still there and the handler has been invoked as
\* often as before.
C18_PendingKeepsState == [][PendingFrame]_vars

C18_Witness ==
  \E f \in FutIds :
    /\ Traced(f) /\ ~Last(f).first /\ Last(f).depth = 1
    /\ Fut(f).ret = Pending
    /\ Slots(Fut(f)) = {"fut2"} /\ Last(f).m.m2 = "Pending"
    /\ IsSome(Fut(f).req) /\ Len(Fut(f).calls) = 1

\* ==================================================================
\* Logger middleware (ntex/src/web/middleware/logger.rs).
\* A string is a sequence of one-character strings.

\* ------------------------------------------------------ enum FormatText
Str(string) == [t |-> "Str", v |-> string]
Percent == [t |-> "Percent", v |-> <<>>]
RequestLine == [t |-> "RequestLine", v |-> <<>>]
RequestTime == [t |-> "RequestTime", v |-> <<>>]
ResponseStatus == [t |-> "ResponseStatus", v |-> <<>>]
ResponseSize == [t |-> "ResponseSize", v |-> <<>>]
Time == [t |-> "Time", v |-> <<>>]
TimeMillis == [t |-> "TimeMillis", v |-> <<>>]
RemoteAddr == [t |-> "RemoteAddr", v |-> <<>>]
UrlPath == [t |-> "UrlPath", v |-> <<>>]
RequestHeader(name) == [t |-> "RequestHeader", v |-> name]
ResponseHeader(name) == [t |-> "ResponseHeader", v |-> name]
EnvironHeader(name) == [t |-> "EnvironHeader", v |-> name]

\* ------------------------------------------------- the directive regex
\* %(\{([A-Za-z0-9\-_]+)\}([ioe])|[atPrUsbTD]?)
UpperChars ==
  {"A", "B", "C", "D", "E", "F", "G", "H", "I", "J", "K", "L", "M",
   "N", "O", "P", "Q", "R", "S", "T", "U", "V", "W", "X", "Y", "Z"}
LowerChars ==
  {"a", "b", "c", "d", "e", "f", "g", "h", "i", "j", "k", "l", "m",
   "n", "o", "p", "q", "r", "s", "t", "u", "v", "w", "x", "y", "z"}
DigitChars == {"0", "1", "2", "3", "4", "5", "6", "7", "8", "9"}
KeyChars == UpperChars \cup LowerChars \cup DigitChars \cup {"-", "_"}
KindChars == {"i", "o", "e"}
DirectiveChars == {"a", "t", "P", "r", "U", "s", "b", "T", "D"}

\* First index at or after q that is not a key character.
RECURSIVE KeyRun(_, _)
KeyRun(s, q) ==
  IF q <= Len(s) /\ s[q] \in KeyChars THEN KeyRun(s, q + 1) ELSE q

\* The match of the regex at a percent sign at index pos: the braced
\* alternative is tried first, then the optional directive character. end
\* is the index after the match, g1..g3 are the capture groups.
fmt_match(s, pos) ==
  LET q == IF pos + 1 <= Len(s) /\ s[pos + 1] = "{"
           THEN KeyRun(s, pos + 2) ELSE 0
  IN  IF q > pos + 2 /\ q + 1 <= Len(s) /\ s[q] = "}" /\ s[q + 1] \in KindChars
      THEN [end |-> q + 2, g1 |-> SubSeq(s, pos + 1, q + 1),
            g2 |-> Some(SubSeq(s, pos + 2, q - 1)), g3 |-> Some(s[q + 1])]
      ELSE IF pos + 1 <= Len(s) /\ s[pos + 1] \in DirectiveChars
      THEN [end |-> pos + 2, g1 |-> <<s[pos + 1]>>, g2 |-> None, g3 |-> None]
      ELSE [end |-> pos + 1, g1 |-> <<>>, g2 |-> None, g3 |-> None]

\* Start of the leftmost match at or after idx, 0 if there is none: the
\* regex matches at every percent sign and nowhere else.
fmt_find(s, idx) ==
  IF \E p \in idx..Len(s) : s[p] = "%"
  THEN CHOOSE p \in idx..Len(s) :
         s[p] = "%" /\ \A r \in idx..(p - 1) : s[r] # "%"
  ELSE 0

\* HeaderName::try_from(key): header names are kept in lower case.
LowerOf(c) ==
  CASE c = "A" -> "a" [] c = "B" -> "b" [] c = "C" -> "c" [] c = "D" -> "d"
    [] c = "E" -> "e" [] c = "F" -> "f" [] c = "G" -> "g" [] c = "H" -> "h"
    [] c = "I" -> "i" [] c = "J" -> "j" [] c = "K" -> "k" [] c = "L" -> "l"
    [] c = "M" -> "m" [] c = "N" -> "n" [] c = "O" -> "o" [] c = "P" -> "p"
    [] c = "Q" -> "q" [] c = "R" -> "r" [] c = "S" -> "s" [] c = "T" -> "t"
    [] c = "U" -> "u" [] c = "V" -> "v" [] c = "W" -> "w" [] c = "X" -> "x"
    [] c = "Y" -> "y" [] c = "Z" -> "z" [] OTHER -> c
HeaderName_try_from(key) == [i \in 1..Len(key) |-> LowerOf(key[i])]

\* The unit pushed for one capture.
capture_unit(cap) ==
  IF IsSome(cap.g2)
  THEN LET key == Unwrap(cap.g2)
           kind == Unwrap(cap.g3)
       IN  CASE kind = "i" -> RequestHeader(HeaderName_try_from(key))
             [] kind = "o" -> ResponseHeader(HeaderName_try_from(key))
             [] kind = "e" -> EnvironHeader(key)
  ELSE LET m == cap.g1
       IN  CASE m = <<"%">> -> Percent
             [] m = <<"a">> -> RemoteAddr
             [] m = <<"t">> -> RequestTime
             [] m = <<"r">> -> RequestLine
             [] m = <<"s">> -> ResponseStatus
             [] m = <<"b">> -> ResponseSize
             [] m = <<"U">> -> UrlPath
             [] m = <<"T">> -> Time
             [] m = <<"D">> -> TimeMillis
             [] OTHER -> Str(m)

\* The loop over fmt.captures_iter(s), from index idx on, and the tail.
RECURSIVE captures_iter(_, _)
captures_iter(s, idx) ==
  LET pos == fmt_find(s, idx)
  IN  IF pos = 0
      THEN IF idx # Len(s) + 1 THEN <<Str(SubSeq(s, idx, Len(s)))>> ELSE <<>>
      ELSE LET cap == fmt_match(s, pos)
               text == IF idx # pos THEN <<Str(SubSeq(s, idx, pos - 1))>>
                                    ELSE <<>>
           IN  text \o <<capture_unit(cap)>> \o captures_iter(s, cap.end)

\* Format::new
Format_new(s) == captures_iter(s, 1)

\* --------------------------------------------------- rendering of units
Digits == <<"0", "1", "2", "3", "4", "5", "6", "7", "8", "9">>

\* Display of an unsigned integer: its decimal digits.
RECURSIVE Decimal(_)
Decimal(n) ==
  IF n < 10 THEN <<Digits[n + 1]>>
            ELSE Decimal(n \div 10) \o <<Digits[(n % 10) + 1]>>

\* headers().get(name) on a set of <<name, value>> pairs.
HeaderGet(headers, name) ==
  IF \E h \in headers : h[1] = name
  THEN Some((CHOOSE h \in headers : h[1] = name)[2])
  ELSE None

\* The clock is not modelled: no time passes between entry and logging, and
\* a formatted moment is the moment itself.
Elapsed == <<"0", ".", "0", "0", "0", "0", "0", "0">>
time_format(now) == now

\* env::var(name): no variable is set in the modelled process.
env_var(name) == None

\* FormatText::render: the text one unit writes.
render(unit, size, entry_time) ==
  CASE unit.t = "Str" -> unit.v
    [] unit.t = "Percent" -> <<"%">>
    [] unit.t = "ResponseSize" -> Decimal(size)
    [] unit.t = "Time" -> Elapsed
    [] unit.t = "TimeMillis" -> Elapsed
    [] unit.t = "EnvironHeader" ->
         IF IsSome(env_var(unit.v)) THEN Unwrap(env_var(unit.v)) ELSE <<"-">>
    [] OTHER -> <<>>

\* FormatText::render_response
render_response(unit, res) ==
  CASE unit.t = "ResponseStatus" -> Str(Decimal(res.status))
    [] unit.t = "ResponseHeader" ->
         Str(IF IsSome(HeaderGet(res.headers, unit.v))
             THEN Unwrap(HeaderGet(res.headers, unit.v)) ELSE <<"-">>)
    [] OTHER -> unit

\* FormatText::render_request
render_request(unit, now, req) ==
  CASE unit.t = "RequestLine" ->
         IF req.query_string = <<>>
         THEN Str(req.method \o <<" ">> \o req.path \o <<" ">> \o req.version)
         ELSE Str(req.method \o <<" ">> \o req.path \o <<"?">>
                    \o req.query_string \o <<" ">> \o req.version)
    [] unit.t = "UrlPath" -> Str(req.path)
    [] unit.t = "RequestTime" -> Str(time_format(now))
    [] unit.t = "RequestHeader" ->
         Str(IF IsSome(HeaderGet(req.headers, unit.v))
             THEN Unwrap(HeaderGet(req.headers, unit.v)) ELSE <<"-">>)
    [] unit.t = "RemoteAddr" ->
         IF IsSome(req.remote) THEN Str(Unwrap(req.remote)) ELSE Str(<<"-">>)
    [] OTHER -> unit

\* The closure handed to FormatDisplay: every unit rendered in order.
RECURSIVE render_all(_, _, _)
render_all(format, size, time) ==
  IF format = <<>> THEN <<>>
  ELSE render(Head(format), size, time) \o render_all(Tail(format), size, time)

\* ------------------------------------------------------ Logger domains
MaxReq == 2          \* requests sent through the middleware in one run

ReqIds == 1..MaxReq

\* Format strings a Logger is built with: "%b" and "%U %b".
LoggerFormats ==
  { <<"%", "b">>, <<"%", "U", " ", "%", "b">> }

Paths == { <<"/", "a">>, <<"/", "x">> }

Now == <<"n", "o", "w">>              \* OffsetDateTime::now()

\* Requests arriving at the middleware: a GET of each path.
LogRequests ==
  { [method |-> <<"G", "E", "T">>, path |-> p, query_string |-> <<>>,
     version |-> <<"H", "T", "T", "P", "/", "1", ".", "1">>,
     headers |-> {}, remote |-> None] : p \in Paths }

\* Responses of the wrapped service: a status, headers and the chunks its
\* body yields.
ServiceResponses ==
  { [status |-> 200, headers |-> {}, chunks |-> << <<"h", "i">>, <<"!">> >>],
    [status |-> 404, headers |-> {}, chunks |-> <<>>] }

ServiceError == "service_error"

\* Bytes of a sequence of chunks.
RECURSIVE BodyBytes(_)
BodyBytes(chunks) ==
  IF chunks = <<>> THEN 0 ELSE Len(Head(chunks)) + BodyBytes(Tail(chunks))

\* Bytes of the head of a response as HTTP/1.1 writes it: the status line,
\* one line per header and the empty line, each ended by CR LF.
HeadBytes(res) ==
  LET RECURSIVE Lines(_)
      Lines(hs) ==
        IF hs = {} THEN 0
        ELSE LET h == CHOOSE x \in hs : TRUE
             IN  Len(h[1]) + 2 + Len(h[2]) + 2 + Lines(hs \ {h})
  IN  Len(<<"H", "T", "T", "P", "/", "1", ".", "1">>) + 1
        + Len(Decimal(res.status)) + 2 + Lines(res.headers) + 2

\* ------------------------------------------------- Logger and its Inner
\* Logger::new: src remembers the format string the units were parsed from;
\* shared tells that a LoggerMiddleware holds a clone of the Rc<Inner>.
Logger_new(format) ==
  [src |-> format, format |-> Format_new(format), exclude |-> {},
   shared |-> FALSE, panicked |-> FALSE]

\* Variant: every request is logged, excluded or not.
LoggerMiddleware_call_all(inner, req) ==
  [req |-> req, fut |-> "pending", svc_calls |-> 1,
   format |-> Some([i \in 1..Len(inner.format) |->
                      render_request(inner.format[i], Now, req)]),
   time |-> Now, stage |-> "LoggerResponse",
   res |-> None, returned |-> None, next |-> 1, size |-> 0]

\* LoggerMiddleware::call: the LoggerResponse it returns. svc_calls counts
\* the calls of the wrapped service, res is the response that service's
\* future resolved to, returned what LoggerResponse::poll handed back, next
\* the index of the next chunk of the inner body.
LoggerMiddleware_call(inner, req) ==
  IF req.path \in inner.exclude
  THEN [req |-> req, fut |-> "pending", svc_calls |-> 1,
        format |-> None, time |-> Now, stage |-> "LoggerResponse",
        res |-> None, returned |-> None, next |-> 1, size |-> 0]
  ELSE [req |-> req, fut |-> "pending", svc_calls |-> 1,
        format |-> Some([i \in 1..Len(inner.format) |->
                           render_request(inner.format[i], Now, req)]),
        time |-> Now, stage |-> "LoggerResponse",
        res |-> None, returned |-> None, next |-> 1, size |-> 0]

\* Variant: the format taken out of the LoggerResponse is not handed on to
\* the StreamLog.
LoggerResponse_poll_format_lost(s, out) ==
  CASE out.tag = "Pending" -> s
    [] out.tag = "Err" ->
         [s EXCEPT !.fut = "ready", !.stage = "Err",
                   !.returned = Some([tag |-> "Err", err |-> out.err])]
    [] out.tag = "Ok" ->
         [s EXCEPT !.fut = "ready", !.stage = "StreamLog",
                   !.res = Some(out.res),
                   !.returned = Some([tag |-> "Ok", status |-> out.res.status,
                                      headers |-> out.res.headers,
                                      body |-> "StreamLog"]),
                   !.format = None, !.size = 0, !.next = 1]

\* LoggerResponse::poll with the wrapped future's outcome out.
LoggerResponse_poll(s, out) ==
  CASE out.tag = "Pending" -> s
    [] out.tag = "Err" ->
         [s EXCEPT !.fut = "ready", !.stage = "Err",
                   !.returned = Some([tag |-> "Err", err |-> out.err])]
    [] out.tag = "Ok" ->
         LET format == IF IsSome(s.format)
                       THEN Some([i \in 1..Len(Unwrap(s.format)) |->
                                    render_response(Unwrap(s.format)[i],
                                                    out.res)])
                       ELSE None
         IN  [s EXCEPT !.fut = "ready", !.stage = "StreamLog",
                       !.res = Some(out.res),
                       !.returned = Some([tag |-> "Ok", status |-> out.res.status,
                                          headers |-> out.res.headers,
                                          body |-> "StreamLog"]),
                       !.format = format, !.size = 0, !.next = 1]

\* Outcomes of the inner body's poll_next_chunk.
BodyOutcomes(s) ==
  {"Pending", "Err"} \cup
  (IF s.next <= Len(Unwrap(s.res).chunks) THEN {"Chunk"} ELSE {"End"})

\* StreamLog::poll_next_chunk
StreamLog_poll_next_chunk(s, out) ==
  IF out = "Chunk"
  THEN [s EXCEPT !.size = s.size + Len(Unwrap(s.res).chunks[s.next]),
                 !.next = s.next + 1]
  ELSE s

\* StreamLog::drop: the lines written to the log.
StreamLog_drop_lines(s) ==
  IF IsSome(s.format)
  THEN <<render_all(Unwrap(s.format), s.size, s.time)>>
  ELSE <<>>

\* ------------------------------------------------------ Logger actions
hrest == <<adapters, futs, trace>>

LoggerUp == IsSome(logger) /\ ~Unwrap(logger).panicked
Inner == Unwrap(logger)

Sent(r) == IsSome(lresp[r])
Resp(r) == Unwrap(lresp[r])

\* Requests enter in the order of their identifiers.
NextReq(r) == ~Sent(r) /\ \A q \in ReqIds : q < r => Sent(q)

\* Logger::exclude: Rc::get_mut is None once the Rc has a second owner, and
\* the unwrap then panics.
exclude(path) ==
  /\ LoggerUp
  /\ logger' = IF Inner.shared
               THEN Some([Inner EXCEPT !.panicked = TRUE])
               ELSE Some([Inner EXCEPT !.exclude = @ \cup {path}])
  /\ UNCHANGED <<lresp, access_log>>

\* Transform::new_transform: the middleware clones the Rc<Inner>.
new_transform ==
  /\ LoggerUp
  /\ logger' = Some([Inner EXCEPT !.shared = TRUE])
  /\ UNCHANGED <<lresp, access_log>>

\* Service::call of the middleware for request number r.
middleware_call(r, req) ==
  /\ LoggerUp /\ Inner.shared
  /\ NextReq(r)
  /\ lresp' = [lresp EXCEPT ![r] = Some(LoggerMiddleware_call(Inner, req))]
  /\ UNCHANGED <<logger, access_log>>

\* What the wrapped service's future can return to one poll.
ServiceOutcomes ==
  {[tag |-> "Pending"]} \cup {[tag |-> "Err", err |-> ServiceError]}
    \cup {[tag |-> "Ok", res |-> res] : res \in ServiceResponses}

\* One poll of a LoggerResponse that has not completed.
response_poll(r) ==
  /\ LoggerUp /\ Sent(r) /\ Resp(r).stage = "LoggerResponse"
  /\ \E out \in ServiceOutcomes :
       lresp' = [lresp EXCEPT ![r] = Some(LoggerResponse_poll(Resp(r), out))]
  /\ UNCHANGED <<logger, access_log>>

\* The caller drops a LoggerResponse that has not completed: it has no
\* Drop impl and its fields are released.
response_drop(r) ==
  /\ LoggerUp /\ Sent(r) /\ Resp(r).stage = "LoggerResponse"
  /\ lresp' = [lresp EXCEPT ![r] = Some([Resp(r) EXCEPT !.stage = "cancelled"])]
  /\ UNCHANGED <<logger, access_log>>

\* One poll of the response body through the StreamLog.
body_poll(r) ==
  /\ LoggerUp /\ Sent(r) /\ Resp(r).stage = "StreamLog"
  /\ \E out \in BodyOutcomes(Resp(r)) :
       lresp' = [lresp EXCEPT
                   ![r] = Some(StreamLog_poll_next_chunk(Resp(r), out))]
  /\ UNCHANGED <<logger, access_log>>

\* The response body is dropped: Drop for StreamLog runs.
body_drop(r) ==
  /\ LoggerUp /\ Sent(r) /\ Resp(r).stage = "StreamLog"
  /\ access_log' = access_log \o
       [i \in 1..Len(StreamLog_drop_lines(Resp(r))) |->
          [r |-> r, line |-> StreamLog_drop_lines(Resp(r))[i]]]
  /\ lresp' = [lresp EXCEPT ![r] = Some([Resp(r) EXCEPT !.stage = "dropped"])]
  /\ UNCHANGED logger

LoggerInit ==
  /\ adapters = [a \in AdapterIds |-> None]
  /\ futs = [f \in FutIds |-> None]
  /\ trace = None
  /\ \E format \in LoggerFormats : logger = Some(Logger_new(format))
  /\ lresp = [r \in ReqIds |-> None]
  /\ access_log = <<>>

LoggerNext ==
  \/ \E path \in Paths : exclude(path) /\ UNCHANGED hrest
  \/ new_transform /\ UNCHANGED hrest
  \/ \E r \in ReqIds, req \in LogRequests :
       middleware_call(r, req) /\ UNCHANGED hrest
  \/ \E r \in ReqIds : response_poll(r) /\ UNCHANGED hrest
  \/ \E r \in ReqIds : response_drop(r) /\ UNCHANGED hrest
  \/ \E r \in ReqIds : body_poll(r) /\ UNCHANGED hrest
  \/ \E r \in ReqIds : body_drop(r) /\ UNCHANGED hrest

LoggerSpec == LoggerInit /\ [][LoggerNext]_vars

\* ------------------------------------------------------- Logger claims
Excluded(r) == Sent(r) /\ Resp(r).req.path \in Inner.exclude

\* The access-log entries written for request r.
Entries(r) == { i \in 1..Len(access_log) : access_log[i].r = r }

\* C11: a request whose path is excluded is handed to the wrapped service
\* exactly once and the service's outcome is what the middleware returns,
\* and no access-log entry is ever written for it, whether its response has
\* been produced or its response body has been dropped.
C11_ExcludedNotLogged ==
  \A r \in ReqIds :
    Excluded(r) =>
      /\ Resp(r).svc_calls = 1
      /\ Entries(r) = {}
      /\ Resp(r).format = None
      /\ Resp(r).stage \in {"StreamLog", "dropped"} =>
           /\ IsSome(Resp(r).res) /\ IsSome(Resp(r).returned)
           /\ Unwrap(Resp(r).returned).tag = "Ok"
           /\ Unwrap(Resp(r).returned).status = Unwrap(Resp(r).res).status
           /\ Unwrap(Resp(r).returned).headers = Unwrap(Resp(r).res).headers
      /\ Resp(r).stage = "Err" =>
           Resp(r).returned = Some([tag |-> "Err", err |-> ServiceError])

C11_Witness ==
  \E r, q \in ReqIds :
    /\ Excluded(r) /\ Resp(r).stage = "dropped" /\ Resp(r).size > 0
    /\ Entries(r) = {}
    /\ Sent(q) /\ ~Excluded(q) /\ Entries(q) # {}

\* The chunks of request r's response body that went through the StreamLog.
Streamed(r) == SubSeq(Unwrap(Resp(r).res).chunks, 1, Resp(r).next - 1)

\* C12: in every access-log entry the value written for %b is the size of
\* the response in bytes, HTTP headers included: the bytes of the head plus
\* the bytes of the body chunks streamed through the StreamLog.
C12_SizeWithHeaders ==
  \A i \in 1..Len(access_log) :
    LET r == access_log[i].r
    IN  access_log[i].line =
          render_all(Unwrap(Resp(r).format),
                     HeadBytes(Unwrap(Resp(r).res)) + BodyBytes(Streamed(r)),
                     Resp(r).time)

\* ------------------------------------------- format strings on their own
MaxFmtLen == 5       \* characters of a format string

\* A percent sign, a directive letter, a plain letter, the braces and a
\* kind letter.
FmtAlphabet == {"%", "b", "x", "{", "}", "i"}

FormatStrings == UNION { [1..n -> FmtAlphabet] : n \in 0..MaxFmtLen }

\* Sizes handed to render; the tests render with 1024.
RenderSizes == {0, 1024}

\* What the unit tests do with a Format: render_request and render_response
\* on every unit, then one line rendered for a size.
format_display(req, res, size) ==
  /\ IsSome(logger) /\ access_log = <<>>
  /\ LET requested == [i \in 1..Len(Inner.format) |->
                         render_request(Inner.format[i], Now, req)]
         responded == [i \in 1..Len(requested) |->
                         render_response(requested[i], res)]
     IN  access_log' = <<[r |-> 0, line |-> render_all(responded, size, Now)]>>
  /\ UNCHANGED <<logger, lresp>>

FormatInit ==
  /\ adapters = [a \in AdapterIds |-> None]
  /\ futs = [f \in FutIds |-> None]
  /\ trace = None
  /\ \E format \in FormatStrings : logger = Some(Logger_new(format))
  /\ lresp = [r \in ReqIds |-> None]
  /\ access_log = <<>>

FormatNext ==
  \E req \in LogRequests, res \in ServiceResponses, size \in RenderSizes :
    format_display(req, res, size) /\ UNCHANGED hrest

FormatSpec == FormatInit /\ [][FormatNext]_vars

NoPercent(text) == \A i \in 1..Len(text) : text[i] # "%"

\* The units of a text without directives.
Plain(text) == IF text = <<>> THEN <<>> ELSE <<Str(text)>>

\* C13: a format string made of plain text, the directive %% and plain text
\* is parsed to the text, the percent unit and the text, and every line
\* rendered from it is the first text, one percent sign and the second
\* text, wherever in the string the directive stands.
C13_PercentDirective ==
  IsSome(logger) =>
    \A p \in 1..(Len(Inner.src) - 1) :
      LET pre == SubSeq(Inner.src, 1, p - 1)
          post == SubSeq(Inner.src, p + 2, Len(Inner.src))
      IN  (/\ Inner.src[p] = "%" /\ Inner.src[p + 1] = "%"
           /\ NoPercent(pre) /\ NoPercent(post)) =>
            /\ Inner.format = Plain(pre) \o <<Percent>> \o Plain(post)
            /\ \A i \in 1..Len(access_log) :
                 access_log[i].line = pre \o <<"%">> \o post

\* A request that is not excluded has one access-log entry once its
\* StreamLog has been dropped and none in any other stage: none while the
\* wrapped service's future is pending, none when that future was dropped
\* and none when it resolved to an error, which is returned as it came.
LoggedAtDrop ==
  \A r \in ReqIds :
    (Sent(r) /\ ~Excluded(r)) =>
      /\ Cardinality(Entries(r)) = (IF Resp(r).stage = "dropped" THEN 1 ELSE 0)
      /\ Resp(r).stage \in {"LoggerResponse", "cancelled", "Err"} =>
           Resp(r).res = None
      /\ Resp(r).stage = "Err" =>
           Resp(r).returned = Some([tag |-> "Err", err |-> ServiceError])
      /\ Resp(r).stage = "dropped" =>
           access_log[CHOOSE i \in Entries(r) : TRUE].line =
             render_all(Unwrap(Resp(r).format), Resp(r).size, Resp(r).time)

\* The access log grows only in a step that drops a StreamLog, by the one
\* entry of that StreamLog's request, and no entry is changed or removed.
EntryOnlyAtDrop ==
  access_log' # access_log =>
    \E r \in ReqIds :
      /\ Sent(r) /\ Resp(r).stage = "StreamLog"
      /\ Unwrap(lresp'[r]).stage = "dropped"
      /\ Len(access_log') = Len(access_log) + 1
      /\ SubSeq(access_log', 1, Len(access_log)) = access_log
      /\ access_log'[Len(access_log')].r = r

\* C22: for a request that is not excluded the Logger writes exactly one
\* access-log entry, in the step that drops the response's StreamLog: not
\* before the wrapped service has produced its response, not when call
\* returns, and not when the wrapped service's future resolves to an error,
\* which is returned unchanged.
C22_OneEntryAtBodyDrop == []LoggedAtDrop /\ [][EntryOnlyAtDrop]_vars

C22_Witness ==
  \E r, q \in ReqIds :
    /\ Sent(r) /\ ~Excluded(r) /\ Resp(r).stage = "dropped"
    /\ Cardinality(Entries(r)) = 1 /\ Resp(r).size > 0
    /\ Sent(q) /\ ~Excluded(q) /\ Resp(q).stage = "Err" /\ Entries(q) = {}

====
